---- MODULE Spec2Model ----
(***************************************************************************)
(* Model of the remote wall switch firmware (remotes.cpp, timer.cpp):     *)
(* the MQTT command router (update, consume, parse_uint16, sendcode), the *)
(* RF pulse train transmitter (send_command, send_command_once,           *)
(* send_symbol, delay_4us), the 16 bit timer window (Timer::After,        *)
(* Timer::HasPassed, Timer::HasPassedOnce) and the main loop.             *)
(*                                                                         *)
(* Byte strings are sequences of byte values (ASCII codes); a cursor      *)
(* (a pointer to const char) is the 0-based offset from the string start.  *)
(***************************************************************************)
EXTENDS Integers, Sequences, FiniteSets, TLC

VARIABLES
    pc,                 \* position of the single thread of control
    stack,              \* return positions of the calls in progress
    TCNT1,              \* the free running 16 bit hardware counter
    motionTimeout,      \* Timer::TimerWaitValue motionTimeout
    previous_pir_value, \* local of main
    led,                \* level of output pin B6
    transmit,           \* level of output pin D3
    pir_pullup,         \* PORTB bit 3 (pull-up of the pir input)
    frame,              \* the topic and message of the packet update was called with
    accepted,           \* update: result of consume
    topic_ptr,          \* update: the topic cursor (offset into topic)
    sw,                 \* update: uint8_t sw
    onoff,              \* update: uint8_t onoff
    code,               \* send_command: the Encoding passed by reference
    value,              \* send_command: uint32_t value
    once_value,         \* send_command_once: its copy of value (shifted as bits are sent)
    count,              \* send_command: uint8_t count
    bitcounter,         \* send_command_once: uint8_t bitcounter
    symbol,             \* send_symbol: the Encoding::Symbol passed by reference
    call,               \* history: arguments of every send_command call since the last entry
    trains,             \* history: pulse trains completed by the current send_command
    gaps,               \* history: inter-repeat delays done by the current send_command
    emitted,            \* history: the two delays of each symbol sent by the current pulse train
    lastDelay,          \* history: argument of the most recent delay_4us call (0: none)
    armings,            \* history: assignments to motionTimeout made by the current update
    published,          \* history: payloads published to the motion topic since the last arming
    lastAfter,          \* history: the counter read and the argument of the last Timer::After
    windowAtEntry,      \* history: motionTimeout when update was last entered
    onceResult,         \* history: what the last Timer::HasPassedOnce returned ("none": no call since the arming)
    sinceArm,           \* history: ticks of real time since update last armed motionTimeout
    parsed              \* history: the last parse_uint16 on the topic (cursor before, value, cursor after)

vars == << pc, stack, TCNT1, motionTimeout, previous_pir_value, led, transmit,
           pir_pullup, frame, accepted, topic_ptr, sw, onoff, code, value, once_value, count,
           bitcounter, symbol, call, trains, gaps, emitted, lastDelay, armings,
           published, lastAfter, windowAtEntry, onceResult, sinceArm, parsed >>

----------------------------------------------------------------------------
(* Widths of the integer types *)

Uint8  == 2^8
Uint16 == 2^16

\* A uint32_t is kept as its two 16 bit halves
Word32(n) == [hi |-> n \div Uint16, lo |-> n % Uint16]

\* v & 0x01
LowBit(v) == v.lo % 2

\* a shift that loses the bit carried from the high half
ShiftRightNoCarry(v) == [hi |-> v.hi \div 2, lo |-> v.lo \div 2]

\* v >> 1
ShiftRight(v) == [hi |-> v.hi \div 2, lo |-> (v.lo \div 2) + (v.hi % 2) * (Uint16 \div 2)]

----------------------------------------------------------------------------
(* Bounds of the model *)

\* the hardware counter is observed every 2^(16 - TickLog) ticks
TickLog == 2
\* synthetic protocol descriptors have 0..MaxBits bits
MaxBits == 3
\* send_command is tried with repeat counts 0..MaxCount (and the default)
MaxCount == 2

\* at most this many publishes are recorded between two armings
MaxPublished == 2

TickStep == 2^(16 - TickLog)

\* turns of the counter after an arming that are told apart; sinceArm stays at
\* SinceCap once that much time has passed
MaxWraps == 2

\* parse_uint16 is tried with every text of at most MaxText bytes
MaxText == 3
SinceCap == MaxWraps * Uint16

----------------------------------------------------------------------------
(* Protocol table and switch registry *)

quigg == 0
impuls == 1
globaltronic == 2

\* a table whose quigg entry waits 40000 units between repeats
symbolsLongGap == <<
    [us4_between_repeats |-> 40000, bits |-> 20, us4_start_high |-> 175,
     us4_start_low |-> 0, alphabet |-> << <<175, 350>>, <<350, 175>> >>],
    [us4_between_repeats |-> 1500, bits |-> 25, us4_start_high |-> 0,
     us4_start_low |-> 0, alphabet |-> << <<140, 49>>, <<42, 147>> >>],
    [us4_between_repeats |-> 1, bits |-> 24, us4_start_high |-> 756,
     us4_start_low |-> 1784, alphabet |-> << <<131, 250>>, <<250, 131>> >>] >>

\* const Encoding symbols[]; C index i is element i + 1
symbols == <<
    [us4_between_repeats |-> 17000, bits |-> 20, us4_start_high |-> 175,
     us4_start_low |-> 0, alphabet |-> << <<175, 350>>, <<350, 175>> >>],
    [us4_between_repeats |-> 1500, bits |-> 25, us4_start_high |-> 0,
     us4_start_low |-> 0, alphabet |-> << <<140, 49>>, <<42, 147>> >>],
    [us4_between_repeats |-> 1, bits |-> 24, us4_start_high |-> 756,
     us4_start_low |-> 1784, alphabet |-> << <<131, 250>>, <<250, 131>> >>] >>

\* const Switch switches[]; C index i is element i + 1; signals[0] is off, [1] is on
switches == <<
    [encoding |-> quigg,        signals |-> <<266253, 823309>>],
    [encoding |-> impuls,       signals |-> <<24468480, 30759936>>],
    [encoding |-> impuls,       signals |-> <<24499200, 30790656>>],
    [encoding |-> globaltronic, signals |-> <<15497039, 15315999>>],
    [encoding |-> globaltronic, signals |-> <<7766415, 7460879>>],
    [encoding |-> globaltronic, signals |-> <<4048367, 3501215>>],
    [encoding |-> quigg,        signals |-> <<13, 557069>>],
    [encoding |-> quigg,        signals |-> <<798733, 307213>>],
    [encoding |-> quigg,        signals |-> <<532493, 40973>>],
    [encoding |-> globaltronic, signals |-> <<11247295, 10502239>>] >>

\* template Size(): the number of elements of an array
Size(array) == Len(array)

\* the default argument of send_command's count
DefaultCount == 12

----------------------------------------------------------------------------
(* Timer (timer.h, timer.cpp) *)

ticksPerSecond == 7812

always == [startValue |-> 0, endValue |-> 0]

GetCurrent == TCNT1

\* a test that treats every window as one that does not wrap
HasPassedAtNoWrap(val, currentTimer) ==
    currentTimer >= val.endValue \/ currentTimer < val.startValue

\* Timer::HasPassed with the counter value it reads made explicit
HasPassedAt(val, currentTimer) ==
    IF val.startValue <= val.endValue
    THEN currentTimer >= val.endValue \/ currentTimer < val.startValue
    ELSE currentTimer < val.startValue /\ currentTimer >= val.endValue

HasPassed(val) == HasPassedAt(val, GetCurrent)

\* a consuming test that reports the window elapsed without resetting it
HasPassedOnceKeeps(val) == [result |-> HasPassed(val), val |-> val]

\* Timer::HasPassedOnce: the value returned and the value left in val
HasPassedOnce(val) ==
    IF HasPassed(val)
    THEN [result |-> TRUE, val |-> always]
    ELSE [result |-> FALSE, val |-> val]

\* a window of no ticks
AfterAtNoTicks(currentTimer, ticks) ==
    [startValue |-> currentTimer, endValue |-> currentTimer]

\* Timer::After with the counter value it reads made explicit
AfterAt(currentTimer, ticks) ==
    [startValue |-> currentTimer, endValue |-> (currentTimer + ticks) % Uint16]

After(ticks) == AfterAt(GetCurrent, ticks)

----------------------------------------------------------------------------
(* Text parsing of the command router *)

\* "spider/switch/": MQTT_BASE_NAME "switch/"
MQTT_SWITCH_PREFIX == <<115, 112, 105, 100, 101, 114, 47, 115, 119, 105, 116, 99, 104, 47>>

\* The loop of consume. input and expectation are cursors (offsets); the byte at
\* expectation = Len(expect) is the terminating NUL. A comparison post-increments
\* both cursors before its outcome is tested.
RECURSIVE consumeLoop(_, _, _, _)
consumeLoop(topic, input, expect, expectation) ==
    IF expectation < Len(expect) /\ input < Len(topic)
    THEN IF topic[input + 1] = expect[expectation + 1]
         THEN consumeLoop(topic, input + 1, expect, expectation + 1)
         ELSE [input |-> input + 1, expectation |-> expectation + 1]
    ELSE [input |-> input, expectation |-> expectation]

\* consume: the value returned and the cursor left in input
consume(topic, input, expect) ==
    LET r == consumeLoop(topic, input, expect, 0)
    IN  [result |-> (r.expectation = Len(expect)), input |-> r.input]

\* an accumulation that is not cut to 16 bits
RECURSIVE parseLoopNoWrap(_, _, _)
parseLoopNoWrap(text, input, val) ==
    IF /\ input < Len(text)
       /\ text[input + 1] # 0
       /\ text[input + 1] <= 57
       /\ text[input + 1] >= 48
    THEN parseLoopNoWrap(text, input + 1, 10 * val + (text[input + 1] - 48))
    ELSE [result |-> val, input |-> input]

\* parse_uint16: the value returned and the cursor left in input
RECURSIVE parseLoop(_, _, _)
parseLoop(text, input, val) ==
    IF /\ input < Len(text)
       /\ text[input + 1] # 0
       /\ text[input + 1] <= 57
       /\ text[input + 1] >= 48
    THEN parseLoop(text, input + 1, (10 * val + (text[input + 1] - 48)) % Uint16)
    ELSE [result |-> val, input |-> input]

parse_uint16(text, input) == parseLoop(text, input, 0)

\* what a call of parse_uint16 with the cursor at offset input did
ParseRecord(text, input) ==
    [from |-> input, result |-> parse_uint16(text, input).result,
     input |-> parse_uint16(text, input).input]

----------------------------------------------------------------------------
(* Groups of variables *)

timerVars  == << TCNT1, sinceArm >>
mainVars   == << motionTimeout, previous_pir_value, armings, published, lastAfter,
                 windowAtEntry, onceResult >>
pinVars    == << led, transmit, pir_pullup >>
routerVars == << frame, accepted, topic_ptr, sw, onoff, parsed >>
sendVars   == << code, value, once_value, count, bitcounter, symbol >>
histVars   == << call, trains, gaps, emitted, lastDelay >>

\* how the history names a returned bool
Returned(b) == IF b THEN "true" ELSE "false"

\* a function returns: control goes to the position on top of the stack
Return == pc' = Head(stack) /\ stack' = Tail(stack)

\* values of the locals before they are first assigned
NoCode == [us4_between_repeats |-> 0, bits |-> 0, us4_start_high |-> 0,
           us4_start_low |-> 0, alphabet |-> << <<0, 0>>, <<0, 0>> >>]
NoSymbol == <<0, 0>>
NoFrame == [topic |-> << >>, message |-> << >>]

----------------------------------------------------------------------------
(* The transmitter: send_command, send_command_once, send_symbol, delay_4us *)

\* delay_4us: the number of times its loop runs (the 16 bit counter is doubled,
\* and a counter of 0 wraps through the whole range)
DelayLoops(delay) ==
    LET counter == (2 * delay) % Uint16
    IN  IF counter = 0 THEN Uint16 ELSE counter

\* delay_4us(delay): the busy wait changes no pin and no variable of the program
delay_4us(delay) == lastDelay' = delay

\* toggle(pin), set(pin), clear(pin): the level the pin gets
toggle(level) == 1 - level
set(level) == 1
clear(level) == 0

\* the entry of send_command(c, v, n)
EnterSendCommand(c, v, n) ==
    /\ code' = c
    /\ value' = v
    /\ count' = n
    /\ call' = Append(call, [code |-> c, value |-> v, count |-> n])
    /\ trains' = 0
    /\ gaps' = 0

\* send_command: for (; count; ...)
SendCommandTest ==
    /\ pc = "send_command"
    /\ IF count # 0
       THEN pc' = "send_command_once" /\ stack' = stack
       ELSE Return
    /\ UNCHANGED << timerVars, mainVars, pinVars, routerVars, sendVars, histVars >>

\* send_command_once( code, value) is entered with a copy of value: set( led)
OnceSetLed ==
    /\ pc = "send_command_once"
    /\ once_value' = value
    /\ led' = set(led)
    /\ emitted' = << >>
    /\ pc' = "start_high"
    /\ UNCHANGED << stack, timerVars, mainVars, transmit, pir_pullup, routerVars,
                    code, value, count, bitcounter, symbol, call, trains, gaps,
                    lastDelay >>

\* send_command_once: if (code.us4_start_high) { set( transmit); delay_4us(...); }
OnceStartHigh ==
    /\ pc = "start_high"
    /\ IF code.us4_start_high # 0
       THEN transmit' = set(transmit) /\ delay_4us(code.us4_start_high)
       ELSE UNCHANGED << transmit, lastDelay >>
    /\ pc' = "start_low"
    /\ UNCHANGED << stack, timerVars, mainVars, led, pir_pullup, routerVars,
                    sendVars, call, trains, gaps, emitted >>

\* send_command_once: if (code.us4_start_low) { clear( transmit); delay_4us(...); }
\* and uint8_t bitcounter = code.bits
OnceStartLow ==
    /\ pc = "start_low"
    /\ IF code.us4_start_low # 0
       THEN transmit' = clear(transmit) /\ delay_4us(code.us4_start_low)
       ELSE UNCHANGED << transmit, lastDelay >>
    /\ bitcounter' = code.bits
    /\ pc' = "bits"
    /\ UNCHANGED << stack, timerVars, mainVars, led, pir_pullup, routerVars,
                    code, value, once_value, count, symbol, call, trains, gaps,
                    emitted >>

\* the symbol send_command_once selects: code.alphabet[value & 0x01]
SelectSymbol(c, v) == c.alphabet[LowBit(v) + 1]

\* send_command_once: while (bitcounter--) taken, and the first half of
\* send_symbol: toggle( transmit); delay_4us( symbol[0])
SymbolFirst ==
    /\ pc = "bits"
    /\ bitcounter # 0
    /\ bitcounter' = bitcounter - 1
    /\ symbol' = SelectSymbol(code, once_value)
    /\ transmit' = toggle(transmit)
    /\ delay_4us(symbol'[1])
    /\ pc' = "symbol_low"
    /\ UNCHANGED << stack, timerVars, mainVars, led, pir_pullup, routerVars,
                    code, value, once_value, count, call, trains, gaps, emitted >>

\* the second half of send_symbol: toggle( transmit); delay_4us( symbol[1]),
\* and send_command_once: value >>= 1
SymbolSecond ==
    /\ pc = "symbol_low"
    /\ transmit' = toggle(transmit)
    /\ delay_4us(symbol[2])
    /\ emitted' = Append(emitted, << lastDelay, symbol[2] >>)
    /\ once_value' = ShiftRight(once_value)
    /\ pc' = "bits"
    /\ UNCHANGED << stack, timerVars, mainVars, led, pir_pullup, routerVars,
                    code, value, count, bitcounter, symbol, call, trains, gaps >>

\* an end of the symbol loop that leaves the transmit pin as the last toggle left it
OnceKeepTransmit ==
    /\ pc = "bits"
    /\ bitcounter = 0
    /\ bitcounter' = (bitcounter - 1) % Uint8
    /\ pc' = "clear_led"
    /\ UNCHANGED << stack, timerVars, mainVars, pinVars, routerVars,
                    code, value, once_value, count, symbol, histVars >>

\* send_command_once: while (bitcounter--) left (the counter wraps), clear( transmit)
OnceClearTransmit ==
    /\ pc = "bits"
    /\ bitcounter = 0
    /\ bitcounter' = (bitcounter - 1) % Uint8
    /\ transmit' = clear(transmit)
    /\ pc' = "clear_led"
    /\ UNCHANGED << stack, timerVars, mainVars, led, pir_pullup, routerVars,
                    code, value, once_value, count, symbol, histVars >>

\* an end of the pulse train that leaves the led on
OnceLeaveLed ==
    /\ pc = "clear_led"
    /\ trains' = trains + 1
    /\ pc' = "gap"
    /\ UNCHANGED << stack, timerVars, mainVars, pinVars, routerVars,
                    sendVars, call, gaps, emitted, lastDelay >>

\* send_command_once: clear( led), and the return to send_command
OnceClearLed ==
    /\ pc = "clear_led"
    /\ led' = clear(led)
    /\ trains' = trains + 1
    /\ pc' = "gap"
    /\ UNCHANGED << stack, timerVars, mainVars, transmit, pir_pullup, routerVars,
                    sendVars, call, gaps, emitted, lastDelay >>

\* a repeat loop that leaves out the delay after the last pulse train
RepeatGapNotAfterLast ==
    /\ pc = "gap"
    /\ IF count > 1
       THEN delay_4us(code.us4_between_repeats) /\ gaps' = gaps + 1
       ELSE UNCHANGED << lastDelay, gaps >>
    /\ count' = count - 1
    /\ pc' = "send_command"
    /\ UNCHANGED << stack, timerVars, mainVars, pinVars, routerVars,
                    code, value, once_value, bitcounter, symbol, call, trains, emitted >>

\* a delay between repeats that never returns
RepeatGapHangs ==
    /\ pc = "gap"
    /\ UNCHANGED vars

\* send_command: delay_4us( code.us4_between_repeats); --count
RepeatGap ==
    /\ pc = "gap"
    /\ delay_4us(code.us4_between_repeats)
    /\ gaps' = gaps + 1
    /\ count' = count - 1
    /\ pc' = "send_command"
    /\ UNCHANGED << stack, timerVars, mainVars, pinVars, routerVars,
                    code, value, once_value, bitcounter, symbol, call, trains, emitted >>

Transmitter ==
    \/ SendCommandTest
    \/ OnceSetLed
    \/ OnceStartHigh
    \/ OnceStartLow
    \/ SymbolFirst
    \/ SymbolSecond
    \/ OnceClearTransmit
    \/ OnceClearLed
    \/ RepeatGap

\* the positions inside send_command and what it calls
InSendCommand ==
    pc \in {"send_command", "send_command_once", "start_high", "start_low", "bits",
            "symbol_low", "clear_led", "gap"}

----------------------------------------------------------------------------
(* The hardware counter *)

\* TCNT1 counts on, whatever the program does (the busy waits of delay_4us included)
Tick ==
    /\ pc # "done"
    /\ TCNT1' = (TCNT1 + TickStep) % Uint16
    /\ sinceArm' = IF lastAfter.ticks = 0 THEN 0
                   ELSE IF sinceArm + TickStep < SinceCap THEN sinceArm + TickStep
                   ELSE SinceCap
    /\ UNCHANGED << pc, stack, mainVars, pinVars, routerVars, sendVars, histVars >>

----------------------------------------------------------------------------
(* The command router: update, sendcode *)

\* a lookup that misses the last entry of switches
sendcodeInRangeShort(switch_index, on_off) ==
    /\ switch_index < Size(switches) - 1
    /\ on_off < Size(switches[switch_index + 1].signals)

\* sendcode: the test that guards the call of send_command
sendcodeInRange(switch_index, on_off) ==
    /\ switch_index < Size(switches)
    /\ on_off < Size(switches[switch_index + 1].signals)

\* a switch number read as counting from 1
updateSwFromOne(topic, input) == (parse_uint16(topic, input).result - 1) % Uint8

\* update: uint8_t sw = parse_uint16( topic_ptr, topic_end), the 16 bit result
\* converted to 8 bits
updateSw(topic, input) == parse_uint16(topic, input).result % Uint8

\* update: uint8_t onoff = parse_uint16( message.buffer, ...)
updateOnoff(message) == parse_uint16(message, 0).result % Uint8

\* update, from its entry to the call of sendcode
Update ==
    /\ pc = "update"
    /\ LET c == consume(frame.topic, 0, MQTT_SWITCH_PREFIX)
       IN  /\ accepted' = c.result
           /\ IF c.result
              THEN /\ topic_ptr' = parse_uint16(frame.topic, c.input).input
                   /\ parsed' = ParseRecord(frame.topic, c.input)
                   /\ sw' = updateSw(frame.topic, c.input)
                   /\ onoff' = updateOnoff(frame.message)
                   /\ pc' = "sendcode"
                   /\ stack' = << "arm" >> \o stack
              ELSE /\ topic_ptr' = c.input
                   /\ UNCHANGED << sw, onoff, parsed >>
                   /\ Return
    /\ UNCHANGED << timerVars, mainVars, pinVars, frame, sendVars, histVars >>

\* sendcode( sw, onoff)
Sendcode ==
    /\ pc = "sendcode"
    /\ IF sendcodeInRange(sw, onoff)
       THEN /\ EnterSendCommand(symbols[switches[sw + 1].encoding + 1],
                                Word32(switches[sw + 1].signals[onoff + 1]),
                                DefaultCount)
            /\ pc' = "send_command"
            /\ stack' = stack
       ELSE /\ Return
            /\ UNCHANGED << code, value, count, call, trains, gaps >>
    /\ UNCHANGED << timerVars, mainVars, pinVars, routerVars, once_value, bitcounter,
                    symbol, emitted, lastDelay >>

\* update: motionTimeout = Timer::After( 4 * Timer::ticksPerSecond), and the return
Arm ==
    /\ pc = "arm"
    /\ motionTimeout' = After(4 * ticksPerSecond)
    /\ lastAfter' = [currentTimer |-> GetCurrent, ticks |-> 4 * ticksPerSecond]
    /\ armings' = armings + 1
    /\ published' = << >>
    /\ sinceArm' = 0
    /\ onceResult' = "none"
    /\ Return
    /\ UNCHANGED << TCNT1, previous_pir_value, windowAtEntry, pinVars,
                    routerVars, sendVars, histVars >>

Router == Update \/ Sendcode \/ Arm

----------------------------------------------------------------------------
(* The main loop *)

\* main: one pass of the loop body up to esp.try_receive()
MainPoll ==
    /\ pc = "poll"
    /\ \E pir_value \in BOOLEAN :
          IF pir_value # previous_pir_value
          THEN LET h == HasPassedOnce(motionTimeout)
               IN  /\ motionTimeout' = h.val
                   /\ onceResult' = Returned(h.result)
                   /\ IF h.result
                      THEN /\ Len(published) < MaxPublished
                           /\ published' = Append(published, IF pir_value THEN "1" ELSE "0")
                      ELSE published' = published
                   /\ previous_pir_value' = pir_value
          ELSE UNCHANGED << motionTimeout, previous_pir_value, published, onceResult >>
    /\ pc' = "try_receive"
    /\ UNCHANGED << stack, timerVars, armings, lastAfter, windowAtEntry, pinVars,
                    routerVars, sendVars, histVars >>

\* esp.try_receive() with no complete packet for update
ReceiveNothing ==
    /\ pc = "try_receive"
    /\ pc' = "poll"
    /\ UNCHANGED << stack, timerVars, mainVars, pinVars, routerVars, sendVars, histVars >>

\* esp.try_receive() calls update with the packet p
CallUpdate(p, from) ==
    /\ frame' = p
    /\ call' = << >>
    /\ armings' = 0
    /\ windowAtEntry' = motionTimeout
    /\ pc' = "update"
    /\ stack' = << from >>


\* esp.try_receive() received a complete packet for the update callback
ReceiveFrame(frames) ==
    /\ pc = "try_receive"
    /\ \E p \in frames : CallUpdate(p, "poll")
    /\ UNCHANGED << timerVars, motionTimeout, previous_pir_value, published, lastAfter,
                    onceResult, pinVars, accepted, topic_ptr, sw, onoff, parsed, sendVars, trains,
                    gaps,
                    emitted, lastDelay >>

----------------------------------------------------------------------------
(* Inputs *)

\* the decimal text of a number
RECURSIVE Decimal(_)
Decimal(n) == IF n < 10 THEN << 48 + n >> ELSE Append(Decimal(n \div 10), 48 + (n % 10))

\* "other/x", "on", "x", "1x"
OtherTopic == << 111, 116, 104, 101, 114, 47, 120 >>
TextOn == << 111, 110 >>
TextX == << 120 >>
TextOneX == << 49, 120 >>

Topic(text) == MQTT_SWITCH_PREFIX \o text
Frame(t, m) == [topic |-> t, message |-> m]

\* the prefix with the byte at position i replaced by b
Replace(text, i, b) == [text EXCEPT ![i] = b]

\* numbers written after the prefix: in range, just out of range, and beyond 8 and 16 bits
IndexNumbers == (0..(Size(switches) + 1)) \cup {99, 255, 256, 259, 65537}
\* numbers written in the payload
OnoffNumbers == {0, 1, 2, 255, 256, 257}

\* texts that are no number
NonNumbers == { << >>, TextX, TextOn }

IndexTexts == { Decimal(n) : n \in IndexNumbers } \cup NonNumbers \cup { TextOneX }
OnoffTexts == { Decimal(n) : n \in OnoffNumbers } \cup NonNumbers \cup { TextOneX }

\* topics that do not start with the prefix: one byte replaced (by "X"), cut short,
\* unrelated
BadTopics ==
    { Replace(MQTT_SWITCH_PREFIX, i, 88) \o Decimal(3) : i \in 1..Len(MQTT_SWITCH_PREFIX) }
    \cup { SubSeq(MQTT_SWITCH_PREFIX, 1, n) : n \in 0..(Len(MQTT_SWITCH_PREFIX) - 1) }
    \cup { OtherTopic }

\* the frames update is tried with
UpdateFrames ==
    { Frame(Topic(t), Decimal(1)) : t \in IndexTexts }
    \cup { Frame(Topic(Decimal(i)), Decimal(b)) : i \in 0..(Size(switches) - 1), b \in {0, 1} }
    \cup { Frame(Topic(Decimal(1)), m) : m \in OnoffTexts }
    \cup { Frame(Topic(t), m) : t \in NonNumbers, m \in NonNumbers }
    \cup { Frame(t, Decimal(1)) : t \in BadTopics }

\* the frames the main loop receives
MainFrames ==
    { Frame(Topic(Decimal(1)), Decimal(1)),
      Frame(Topic(Decimal(99)), Decimal(1)),
      Frame(OtherTopic, Decimal(1)) }

----------------------------------------------------------------------------
(* The program *)

\* the locals and the history before anything ran
Untouched ==
    /\ once_value = Word32(0)
    /\ accepted = FALSE
    /\ topic_ptr = 0
    /\ bitcounter = 0
    /\ symbol = NoSymbol
    /\ trains = 0
    /\ gaps = 0
    /\ emitted = << >>
    /\ lastDelay = 0
    /\ armings = 0
    /\ published = << >>
    /\ lastAfter = [currentTimer |-> 0, ticks |-> 0]
    /\ windowAtEntry = motionTimeout
    /\ onceResult = "none"
    /\ sinceArm = 0
    /\ parsed = [from |-> 0, result |-> 0, input |-> 0]

NoTransmission ==
    /\ code = NoCode
    /\ value = Word32(0)
    /\ count = 0
    /\ call = << >>

\* the state when main enters its loop: esp.sync() left the led at either level
Init ==
    /\ pc = "poll"
    /\ stack = << >>
    /\ TCNT1 = 0
    /\ motionTimeout = always
    /\ previous_pir_value = FALSE
    /\ led \in {0, 1}
    /\ transmit = 0
    /\ pir_pullup = 1
    /\ frame = NoFrame
    /\ sw = 0
    /\ onoff = 0
    /\ NoTransmission
    /\ Untouched

Next ==
    \/ MainPoll
    \/ ReceiveNothing
    \/ ReceiveFrame(MainFrames)
    \/ Router
    \/ Transmitter
    \/ Tick

Spec == Init /\ [][Next]_vars


----------------------------------------------------------------------------
(* One call of update, with any frame, from any state of the debounce window *)

\* the windows motionTimeout can hold when update is called
WindowsBefore == { always } \cup { AfterAt(t * TickStep, 4 * ticksPerSecond) : t \in {1, 3} }

InitUpdate ==
    /\ pc = "update"
    /\ stack = << "done" >>
    /\ TCNT1 = 0
    /\ motionTimeout \in WindowsBefore
    /\ previous_pir_value = FALSE
    /\ led = 0
    /\ transmit = 0
    /\ pir_pullup = 1
    /\ frame \in UpdateFrames
    /\ sw = 0
    /\ onoff = 0
    /\ NoTransmission
    /\ Untouched

NextUpdate == Router \/ Transmitter \/ Tick

SpecUpdate == InitUpdate /\ [][NextUpdate]_vars

----------------------------------------------------------------------------
(* One call of sendcode, with any pair of 8 bit arguments *)

InitSendcode ==
    /\ pc = "sendcode"
    /\ stack = << "done" >>
    /\ TCNT1 = 0
    /\ motionTimeout = always
    /\ previous_pir_value = FALSE
    /\ led = 0
    /\ transmit = 0
    /\ pir_pullup = 1
    /\ frame = NoFrame
    /\ sw \in 0..(Uint8 - 1)
    /\ onoff \in 0..(Uint8 - 1)
    /\ NoTransmission
    /\ Untouched

NextSendcode == Sendcode \/ Transmitter

SpecSendcode == InitSendcode /\ [][NextSendcode]_vars

----------------------------------------------------------------------------
(* One call of send_command, with any descriptor, value and count *)

\* descriptors with few bits, with and without each preamble
SmallCodes ==
    { [us4_between_repeats |-> 9, bits |-> b, us4_start_high |-> h,
       us4_start_low |-> l, alphabet |-> << <<1, 2>>, <<3, 4>> >>] :
      b \in 0..MaxBits, h \in {0, 5}, l \in {0, 7} }

\* a descriptor with more bits than the value has
WideCode ==
    [us4_between_repeats |-> 9, bits |-> 34, us4_start_high |-> 0,
     us4_start_low |-> 0, alphabet |-> << <<1, 2>>, <<3, 4>> >>]

TableCodes == { symbols[i] : i \in 1..Size(symbols) }

\* 32 bit values: all small ones, and some with high bits set
SmallValues == { Word32(n) : n \in 0..(2^MaxBits - 1) }
WideValues ==
    { [hi |-> Uint16 - 1, lo |-> Uint16 - 1], [hi |-> Uint16 \div 2, lo |-> 0],
      [hi |-> Uint16 \div 2 + 1, lo |-> 5], [hi |-> 1, lo |-> 0],
      Word32(24468480), Word32(823309) }

SendInputs ==
    (SmallCodes \X (SmallValues \cup WideValues) \X (0..MaxCount))
    \cup (TableCodes \X WideValues \X (0..MaxCount))
    \cup ({ WideCode } \X WideValues \X {1})
    \cup (TableCodes \X { Word32(30759936) } \X { DefaultCount })
    \cup ({ c \in SmallCodes : c.bits = 1 } \X { Word32(1) } \X { Uint8 - 1 })

InitSend ==
    /\ pc = "send_command"
    /\ stack = << "done" >>
    /\ TCNT1 = 0
    /\ motionTimeout = always
    /\ previous_pir_value = FALSE
    /\ led \in {0, 1}
    /\ transmit \in {0, 1}
    /\ pir_pullup = 1
    /\ frame = NoFrame
    /\ sw = 0
    /\ onoff = 0
    /\ \E in \in SendInputs :
          /\ code = in[1]
          /\ value = in[2]
          /\ count = in[3]
          /\ call = << [code |-> in[1], value |-> in[2], count |-> in[3]] >>
    /\ Untouched

NextSend == Transmitter

SpecSend == InitSend /\ [][NextSend]_vars

----------------------------------------------------------------------------
(* The program from a call of send_command made by update (through sendcode),  *)
(* with any descriptor, value and repeat count; the thread of control always   *)
(* takes its next step                                                         *)

\* a descriptor with as many bits as the 8 bit counter can hold
LongCode ==
    [us4_between_repeats |-> 9, bits |-> Uint8 - 1, us4_start_high |-> 0,
     us4_start_low |-> 0, alphabet |-> << <<1, 2>>, <<3, 4>> >>]

RunInputs ==
    ({ c \in SmallCodes : c.bits \in {0, MaxBits} } \X { Word32(5) } \X {0, MaxCount})
    \cup ({ symbols[quigg + 1] } \X { Word32(30759936) } \X { DefaultCount })
    \cup ({ LongCode } \X { Word32(1) } \X {1})
    \cup ({ c \in SmallCodes : c.bits = 1 /\ c.us4_start_high = 0 /\ c.us4_start_low = 0 }
            \X { Word32(1) } \X { Uint8 - 1 })

InitRun ==
    /\ pc = "send_command"
    /\ stack = << "arm", "poll" >>
    /\ TCNT1 = 0
    /\ motionTimeout = always
    /\ previous_pir_value = FALSE
    /\ led = 0
    /\ transmit = 0
    /\ pir_pullup = 1
    /\ frame = Frame(Topic(Decimal(1)), Decimal(1))
    /\ sw = 1
    /\ onoff = 1
    /\ \E in \in RunInputs :
          /\ code = in[1]
          /\ value = in[2]
          /\ count = in[3]
          /\ call = << [code |-> in[1], value |-> in[2], count |-> in[3]] >>
    /\ Untouched

\* the frames received after the transmission: those that start no other one
RunFrames == { Frame(Topic(Decimal(99)), Decimal(1)), Frame(OtherTopic, Decimal(1)) }

\* the single thread of control
Thread ==
    \/ MainPoll
    \/ ReceiveNothing
    \/ ReceiveFrame(RunFrames)
    \/ Router
    \/ Transmitter

\* the counter is left out: no step of a transmission reads it
NextRun == Thread

SpecRun == InitRun /\ [][NextRun]_vars /\ WF_vars(Thread)

----------------------------------------------------------------------------
(* One call of parse_uint16, on any short text, from any cursor position *)

\* bytes the texts are made of: "0", "2", "4", "9", the bytes next to the digits
\* ("/" and ":"), "a" and NUL
ParseBytes == {48, 50, 52, 57, 47, 58, 97, 0}

\* "042abc", and numbers around 2^16 and beyond
LongTexts ==
    { << 48, 52, 50, 97, 98, 99 >> } \cup
    { Decimal(n) : n \in {65535, 65536, 65537, 99999, 131114, 655360} }

\* every text of at most MaxText bytes, and the long ones
ParseTexts ==
    UNION { [1..n -> ParseBytes] : n \in 0..MaxText } \cup LongTexts

InitParse ==
    /\ pc = "parse"
    /\ stack = << "done" >>
    /\ TCNT1 = 0
    /\ motionTimeout = always
    /\ previous_pir_value = FALSE
    /\ led = 0
    /\ transmit = 0
    /\ pir_pullup = 1
    /\ \E text \in ParseTexts : frame = Frame(text, << >>)
    /\ sw = 0
    /\ onoff = 0
    /\ NoTransmission
    /\ once_value = Word32(0)
    /\ accepted = FALSE
    /\ topic_ptr \in 0..Len(frame.topic)
    /\ bitcounter = 0
    /\ symbol = NoSymbol
    /\ trains = 0
    /\ gaps = 0
    /\ emitted = << >>
    /\ lastDelay = 0
    /\ armings = 0
    /\ published = << >>
    /\ lastAfter = [currentTimer |-> 0, ticks |-> 0]
    /\ windowAtEntry = motionTimeout
    /\ onceResult = "none"
    /\ sinceArm = 0
    /\ parsed = [from |-> 0, result |-> 0, input |-> 0]

\* parse_uint16( topic_ptr, topic_end)
ParseCall ==
    /\ pc = "parse"
    /\ parsed' = ParseRecord(frame.topic, topic_ptr)
    /\ topic_ptr' = parse_uint16(frame.topic, topic_ptr).input
    /\ Return
    /\ UNCHANGED << timerVars, mainVars, pinVars, frame, accepted, sw, onoff, sendVars,
                    histVars >>

NextParse == ParseCall

SpecParse == InitParse /\ [][NextParse]_vars

----------------------------------------------------------------------------
(* Timer::After at any counter value, then Timer::HasPassed at any later one *)

\* counter values at which the window is made
TimerStarts == {0, 1, 100, Uint16 - 4 * ticksPerSecond, 40000, Uint16 - 1}
                  \cup { k * TickStep : k \in 0..(2^TickLog - 1) }

\* arguments of Timer::After
Durations == {1, 2, 100, 4 * ticksPerSecond, Uint16 \div 2, Uint16 - 2, Uint16 - 1}

\* ticks after which the window is looked at (less than one turn of the counter)
Offsets(d) == ({0, 1, d - 1, d, d + 1, Uint16 - 1} \cap (0..(Uint16 - 1)))
                 \cup { k * TickStep : k \in 0..(2^TickLog - 1) }

InitTimer ==
    /\ pc = "timer"
    /\ stack = << >>
    /\ TCNT1 \in TimerStarts
    /\ motionTimeout = always
    /\ previous_pir_value = FALSE
    /\ led = 0
    /\ transmit = 0
    /\ pir_pullup = 1
    /\ frame = NoFrame
    /\ sw = 0
    /\ onoff = 0
    /\ NoTransmission
    /\ Untouched

\* val = Timer::After( d)
TimerAfter ==
    /\ pc = "timer"
    /\ \E d \in Durations :
          /\ motionTimeout' = After(d)
          /\ lastAfter' = [currentTimer |-> GetCurrent, ticks |-> d]
    /\ pc' = "armed"
    /\ UNCHANGED << stack, timerVars, previous_pir_value, armings, published,
                    windowAtEntry, onceResult, pinVars, routerVars, sendVars, histVars >>

\* the counter is k ticks past the value Timer::After read
TimerRuns ==
    /\ pc \in {"armed", "consumed"}
    /\ \E k \in Offsets(lastAfter.ticks) :
          TCNT1' = (lastAfter.currentTimer + k) % Uint16
    /\ UNCHANGED << sinceArm, pc, stack, mainVars, pinVars, routerVars, sendVars, histVars >>

\* Timer::HasPassedOnce( val); "consumed" is the position after a call returned true
TimerOnce ==
    /\ pc \in {"armed", "consumed"}
    /\ LET h == HasPassedOnce(motionTimeout)
       IN  /\ motionTimeout' = h.val
           /\ onceResult' = Returned(h.result)
           /\ pc' = IF h.result THEN "consumed" ELSE pc
    /\ UNCHANGED << stack, timerVars, previous_pir_value, armings, published, lastAfter,
                    windowAtEntry, pinVars, routerVars, sendVars, histVars >>

NextTimer == TimerAfter \/ TimerRuns \/ TimerOnce

SpecTimer == InitTimer /\ [][NextTimer]_vars

----------------------------------------------------------------------------
(* Properties of the command router *)

\* topic starts with the complete prefix
StartsWith(topic, prefix) ==
    /\ Len(topic) >= Len(prefix)
    /\ SubSeq(topic, 1, Len(prefix)) = prefix

\* the text after the prefix of a topic that starts with it
IndexText(topic) == SubSeq(topic, Len(MQTT_SWITCH_PREFIX) + 1, Len(topic))

IsDigit(byte) == byte >= 48 /\ byte <= 57

\* text begins with an ASCII digit
Numeric(text) == Len(text) > 0 /\ IsDigit(text[1])

\* the number the leading digits of text write, as a number (not as a uint16_t)
RECURSIVE NumberWritten(_, _)
NumberWritten(text, acc) ==
    IF Len(text) > 0 /\ IsDigit(text[1])
    THEN NumberWritten(Tail(text), 10 * acc + (text[1] - 48))
    ELSE acc

\* update has returned or is past its parsing
Parsed == pc # "update"

\* no send_command was called and the transmit pin was never driven
NothingTransmitted == call = << >> /\ transmit = 0 /\ lastDelay = 0

\* C1: consume reports success if and only if the topic starts with the complete
\* prefix "spider/switch/"; a topic that differs from the prefix in any position,
\* the last included, is rejected and its frame causes no transmission.
C1_PrefixMatchedExactly ==
    Parsed =>
        /\ accepted <=> StartsWith(frame.topic, MQTT_SWITCH_PREFIX)
        /\ ~StartsWith(frame.topic, MQTT_SWITCH_PREFIX) => NothingTransmitted

\* C2: a frame whose topic has the prefix and whose switch number (as written in
\* decimal) is 10 or more, or whose payload number (as written) is neither 0 nor 1,
\* causes no transmission, also for numbers of 256 and more.
C2_OutOfRangeNeverTransmits ==
    ( /\ StartsWith(frame.topic, MQTT_SWITCH_PREFIX)
      /\ Numeric(IndexText(frame.topic))
      /\ Numeric(frame.message)
      /\ \/ NumberWritten(IndexText(frame.topic), 0) >= 10
         \/ NumberWritten(frame.message, 0) \notin {0, 1} )
    => NothingTransmitted

\* C3: a frame whose topic has the prefix and whose switch index text or payload
\* begins with no digit (the empty text included) causes no transmission and no
\* change of the transmit pin.
C3_NonNumericNeverTransmits ==
    ( /\ StartsWith(frame.topic, MQTT_SWITCH_PREFIX)
      /\ \/ ~Numeric(IndexText(frame.topic))
         \/ ~Numeric(frame.message) )
    => NothingTransmitted

\* the call of send_command that sendcode(i, b) makes for a registered switch
RegistryCall(i, b) ==
    [code |-> symbols[switches[i + 1].encoding + 1],
     value |-> Word32(switches[i + 1].signals[b + 1]),
     count |-> 12]

\* C4: sendcode(switch_index, onoff) transmits nothing when switch_index >= 10 or
\* onoff is not 0 or 1; otherwise it transmits exactly the value
\* switches[switch_index].signals[onoff] with the descriptor
\* symbols[switches[switch_index].encoding], for every pair of 8 bit arguments.
C4_RegistryLookup ==
    pc # "sendcode" =>
        IF sw < 10 /\ onoff \in {0, 1}
        THEN call = << RegistryCall(sw, onoff) >>
        ELSE NothingTransmitted /\ pc = "done"

C4_Witness ==
    /\ pc = "done"
    /\ sw = 9
    /\ onoff = 1
    /\ call = << [code |-> symbols[globaltronic + 1], value |-> Word32(10502239), count |-> 12] >>
    /\ trains = 12

\* C5: motionTimeout is assigned by update exactly when the frame led to a
\* transmission; a frame that leads to none leaves it as it was.
C5_ArmedOnlyOnDispatch ==
    pc = "done" =>
        /\ armings > 0 <=> call # << >>
        /\ call = << >> => motionTimeout = windowAtEntry

\* the frame with topic "spider/switch/<i>" and payload "<b>"
SwitchFrame(i, b) == Frame(Topic(Decimal(i)), Decimal(b))

\* C6: for every frame "spider/switch/<i>" with payload "<b>", i in 0..9 and b in
\* 0..1, update calls send_command exactly once, with the descriptor of switch i,
\* signals[b] of switch i and the repeat count 12, and assigns motionTimeout only
\* after that call has returned, with After(4 * ticksPerSecond) taken at that time.
C6_Dispatch ==
    /\ [](\A i \in 0..9, b \in {0, 1} :
            frame = SwitchFrame(i, b) =>
                /\ pc \in {"update", "sendcode"} => call = << >>
                /\ pc \notin {"update", "sendcode"} => call = << RegistryCall(i, b) >>
                /\ pc # "done" => armings = 0 /\ motionTimeout = windowAtEntry
                /\ pc \in {"arm", "done"} => trains = 12 /\ gaps = 12 /\ count = 0
                /\ pc = "done" => armings = 1 /\ lastAfter.ticks = 31248)
    /\ [][pc' = "done" /\ (\E i \in 0..9, b \in {0, 1} : frame = SwitchFrame(i, b)) =>
             /\ pc = "arm"
             /\ motionTimeout' = [startValue |-> TCNT1,
                                  endValue |-> (TCNT1 + 31248) % 65536]]_vars

C6_Witness ==
    /\ pc = "done"
    /\ frame = SwitchFrame(1, 1)
    /\ call = << [code |-> symbols[impuls + 1], value |-> Word32(30759936), count |-> 12] >>
    /\ motionTimeout = [startValue |-> 49152, endValue |-> 14864]

----------------------------------------------------------------------------
(* Properties of the transmitter *)

\* the arguments send_command was called with
Args == call[1]

\* bit i of a 32 bit value (0 is the least significant); bits from 32 on are 0
BitOf(v, i) ==
    IF i < 16 THEN (v.lo \div 2^i) % 2
    ELSE IF i < 32 THEN (v.hi \div 2^(i - 16)) % 2
    ELSE 0

\* C7: send_command(code, value, count) emits exactly count pulse trains, each
\* followed at once by one delay of code.us4_between_repeats, the last train
\* included; a count of 0 gives no train and no delay.
C7_TrainsAndGaps ==
    /\ pc = "gap" => trains = gaps + 1
    /\ pc # "gap" => trains = gaps
    /\ pc = "send_command" =>
          /\ gaps = Args.count - count
          /\ gaps > 0 => lastDelay = Args.code.us4_between_repeats
    /\ pc = "done" =>
          /\ trains = Args.count
          /\ gaps = Args.count
          /\ Args.count = 0 => lastDelay = 0 /\ emitted = << >>

C7_Witness ==
    /\ pc = "done"
    /\ Args.count = 255
    /\ trains = 255
    /\ gaps = 255

\* C8: one pulse train emits exactly code.bits symbols and the i-th one (from 0) is
\* alphabet[(value >> i) & 1]: least significant bit first, bits of value from
\* position code.bits on are never sent.
C8_SymbolsLsbFirst ==
    /\ \A i \in 1..Len(emitted) :
          emitted[i] = Args.code.alphabet[BitOf(Args.value, i - 1) + 1]
    /\ Len(emitted) <= Args.code.bits
    /\ pc \in {"clear_led", "gap"} => Len(emitted) = Args.code.bits

C8_Witness ==
    /\ pc = "gap"
    /\ Args.code.bits = 34
    /\ Args.value = [hi |-> 32769, lo |-> 5]
    /\ Len(emitted) = 34
    /\ emitted[17] = << 3, 4 >>
    /\ emitted[32] = << 3, 4 >>
    /\ emitted[33] = << 1, 2 >>

\* C9 as stated: a transmission changes the level of the transmit pin only; every
\* other output, the led pin in particular, stays as it is at every step.
C9_OnlyTransmitPin == [][led' = led /\ pir_pullup' = pir_pullup]_vars

\* C9 amended: a transmission drives the transmit pin and the led pin; the led is set
\* when a pulse train starts and cleared when it ends, so it is on throughout a
\* train and off in the gaps; no other port bit changes.
C9_TransmitAndLed ==
    /\ [](pc \in {"start_high", "start_low", "bits", "symbol_low", "clear_led"} => led = 1)
    /\ [](pc = "gap" \/ (pc \in {"send_command", "done"} /\ trains > 0) => led = 0)
    /\ [][ /\ pir_pullup' = pir_pullup
           /\ led' # led => pc \in {"send_command_once", "clear_led"}
           /\ transmit' # transmit =>
                 pc \in {"start_high", "start_low", "bits", "symbol_low"} ]_vars

C9_Witness ==
    /\ pc = "done"
    /\ trains = 2
    /\ led = 0
    /\ Args.code.us4_start_high # 0

\* C17: the transmit pin is low when a pulse train has ended: after each
\* send_command_once, during the whole delay between repeats, until the next train
\* drives it, and when send_command returns after its trains.
C17_TransmitLowAfterTrain ==
    /\ pc \in {"clear_led", "gap"} => transmit = 0
    /\ trains > 0 /\ pc \in {"send_command", "send_command_once", "done"} => transmit = 0

\* send_command returned after two quigg trains; quigg has a high preamble and no
\* low one, so every symbol's second toggle leaves the pin high
C17_Witness ==
    /\ pc = "done"
    /\ code = symbols[quigg + 1]
    /\ trains = 2
    /\ gaps = 2
    /\ transmit = 0

\* C18: a transmission runs to completion and nothing else of the program runs
\* in between: from the entry of send_command, for any repeat count and bit count,
\* control reaches the return into update; until then no step processes another
\* frame, reads the PIR input or changes motionTimeout, and no step leaves
\* send_command other than by returning.
C18_RunsToCompletion ==
    /\ [][ InSendCommand =>
             /\ frame' = frame
             /\ previous_pir_value' = previous_pir_value
             /\ motionTimeout' = motionTimeout
             /\ onceResult' = onceResult
             /\ published' = published
             /\ armings' = armings
             /\ InSendCommand' \/ (pc' = "arm" /\ count = 0) ]_vars
    /\ (InSendCommand ~> (pc = "arm" /\ count = 0))

\* send_command is about to return after 255 repeats
C18_Witness ==
    /\ pc = "send_command"
    /\ count = 0
    /\ trains = 255
    /\ gaps = 255
    /\ stack = << "arm", "poll" >>

\* the steps of send_command and send_command_once that call delay_4us
DelayCalled ==
    \/ pc = "start_high" /\ code.us4_start_high # 0
    \/ pc = "start_low" /\ code.us4_start_low # 0
    \/ pc = "bits" /\ bitcounter # 0
    \/ pc = "symbol_low"
    \/ pc = "gap"

\* C19: with a protocol of the symbols table, every delay_4us call made by
\* send_command and what it calls has an argument d with 1 <= 2*d <= 65535: the
\* 16 bit doubling does not overflow and the loop counter does not start at 0.
C19_DelayCountNeverWraps ==
    [][ DelayCalled /\ pc' # pc /\ code \in TableCodes =>
          /\ 1 <= 2 * lastDelay'
          /\ 2 * lastDelay' <= 65535
          /\ 2 * lastDelay' = DelayLoops(lastDelay') ]_vars

\* the longest wait of the table was made: quigg's delay between repeats
C19_Witness ==
    /\ pc = "send_command"
    /\ code = symbols[quigg + 1]
    /\ gaps = 1
    /\ lastDelay = 17000
    /\ DelayLoops(lastDelay) = 34000

----------------------------------------------------------------------------
(* Properties of the timer window *)

\* c lies in the interval [lo, hi) of the 16 bit counter, which may wrap
InWrapping(c, lo, hi) == ((c - lo) % 65536) < ((hi - lo) % 65536)

\* C10: the window After(d) made at counter value T, d in 1..65535, is reported
\* elapsed by HasPassed at every counter value in [T+d, T) and not elapsed at every
\* counter value in [T, T+d), both taken modulo 2^16, whether or not T+d overflows.
C10_WindowWrapSafe ==
    pc = "armed" =>
        LET T == lastAfter.currentTimer
            E == (lastAfter.currentTimer + lastAfter.ticks) % 65536
        IN  /\ InWrapping(TCNT1, E, T) => HasPassed(motionTimeout)
            /\ InWrapping(TCNT1, T, E) => ~HasPassed(motionTimeout)
            /\ TCNT1 = T =>
                  \A c \in 0..65535 :
                      /\ InWrapping(c, E, T) => HasPassedAt(motionTimeout, c)
                      /\ InWrapping(c, T, E) => ~HasPassedAt(motionTimeout, c)

\* a window that wraps, looked at after the counter has wrapped and before its end
C10_Witness ==
    /\ pc = "armed"
    /\ lastAfter = [currentTimer |-> 40000, ticks |-> 31248]
    /\ motionTimeout = [startValue |-> 40000, endValue |-> 5712]
    /\ TCNT1 = 5711
    /\ ~HasPassed(motionTimeout)


\* C11: HasPassedOnce checks and consumes: when HasPassed(window) holds at the call
\* it returns true and leaves the window Timer::always ({0,0}); otherwise it returns
\* false and leaves the window as it was. Once it has returned true, every later
\* HasPassed and HasPassedOnce on the window returns true at any counter value.
C11_CheckAndConsume ==
    /\ [][ /\ lastAfter' = lastAfter
           /\ onceResult' # onceResult \/ motionTimeout' # motionTimeout
           => IF HasPassed(motionTimeout)
              THEN onceResult' = "true" /\ motionTimeout' = [startValue |-> 0, endValue |-> 0]
              ELSE onceResult' = "false" /\ motionTimeout' = motionTimeout ]_vars
    /\ [][pc = "consumed" => pc' = "consumed" /\ onceResult' = "true"]_vars
    /\ [](pc = "consumed" =>
             /\ motionTimeout = [startValue |-> 0, endValue |-> 0]
             /\ HasPassed(motionTimeout)
             /\ HasPassedOnce(motionTimeout).result
             /\ TCNT1 = lastAfter.currentTimer =>
                   \A c \in 0..65535 : HasPassedAt(motionTimeout, c))

\* after a call returned true, the counter is back inside the interval the window
\* had, and the window is still reported elapsed
C11_Witness ==
    /\ pc = "consumed"
    /\ onceResult = "true"
    /\ lastAfter = [currentTimer |-> 40000, ticks |-> 31248]
    /\ TCNT1 = 40001
    /\ HasPassed(motionTimeout)

----------------------------------------------------------------------------
(* Properties of the main loop *)

\* update armed motionTimeout at least once since main entered its loop
ArmedBefore == lastAfter.ticks # 0

\* consecutive payloads differ
Alternates(payloads) ==
    \A i \in 1..(Len(payloads) - 1) : payloads[i] # payloads[i + 1]

\* C12, as stated: when update is about to arm motionTimeout again, at most one
\* publish to the motion topic was made since the previous arming
C12_AtMostOncePerWindow ==
    pc = "arm" /\ ArmedBefore => Len(published) <= 1

\* C12, amended: a pass of the main loop publishes exactly when it sees a changed
\* PIR level while HasPassed(motionTimeout) is true; the payload is the new level
\* and the window becomes Timer::always. So once the window has elapsed every
\* further change is published: the publishes since an arming alternate between
\* "1" and "0", and there can be more than one of them
C12_PublishEveryElapsedChange ==
    /\ [][ pc = "poll" /\ pc' = "try_receive" =>
             IF previous_pir_value' # previous_pir_value /\ HasPassed(motionTimeout)
             THEN /\ published' = Append(published, IF previous_pir_value' THEN "1" ELSE "0")
                  /\ motionTimeout' = always
             ELSE /\ published' = published
                  /\ motionTimeout' = motionTimeout ]_vars
    /\ [](published # << >> /\ pc \in {"poll", "try_receive"} => motionTimeout = always)
    /\ [](ArmedBefore => Alternates(published))

\* two publishes were made after an arming, with no arming in between
C12_Witness ==
    /\ ArmedBefore
    /\ pc = "try_receive"
    /\ Len(published) = 2
    /\ onceResult = "true"

\* the counter value c lies in the window made by the last Timer::After
InLastWindow(c) ==
    InWrapping(c, lastAfter.currentTimer, (lastAfter.currentTimer + lastAfter.ticks) % 65536)

\* a pass of the main loop that reads a changed PIR level
ChangeObserved ==
    /\ pc = "poll"
    /\ pc' = "try_receive"
    /\ previous_pir_value' # previous_pir_value

\* C13: a PIR change the main loop observes at a counter value inside the window
\* [startValue, endValue) armed by the last update, less than one turn of the counter
\* after the arming, is not published, and motionTimeout stays the armed window.
C13_SuppressedInWindow ==
    [][ /\ ChangeObserved
        /\ ArmedBefore
        /\ sinceArm < 65536
        /\ InLastWindow(TCNT1)
        => /\ published' = published
           /\ motionTimeout' = motionTimeout
           /\ motionTimeout =
                [startValue |-> lastAfter.currentTimer,
                 endValue |-> (lastAfter.currentTimer + lastAfter.ticks) % 65536]
           /\ motionTimeout.startValue # motionTimeout.endValue ]_vars

\* a change was seen and not published inside a window that wraps, after the
\* counter wrapped
C13_Witness ==
    /\ ArmedBefore
    /\ pc = "try_receive"
    /\ onceResult = "false"
    /\ published = << >>
    /\ previous_pir_value = TRUE
    /\ sinceArm > 0
    /\ sinceArm < 4 * 7812
    /\ motionTimeout.startValue > motionTimeout.endValue
    /\ TCNT1 < motionTimeout.endValue

\* C15: motionTimeout is always either armed (startValue # endValue) or
\* Timer::always (startValue = endValue = 0); it never holds a window with
\* startValue = endValue # 0.
C15_ArmedOrAlways ==
    \/ motionTimeout.startValue # motionTimeout.endValue
    \/ motionTimeout.startValue = 0 /\ motionTimeout.endValue = 0

\* a window armed away from counter value 0 was consumed by a publish
C15_Witness ==
    /\ ArmedBefore
    /\ lastAfter.currentTimer # 0
    /\ motionTimeout.startValue = 0
    /\ motionTimeout.endValue = 0
    /\ Len(published) = 1

\* C20: every PIR change the main loop observes when at least 4 * ticksPerSecond
\* (31248) ticks of real time have passed since motionTimeout was last armed is
\* published, however often the counter has wrapped since the arming.
C20_PublishedAfterGuard ==
    [][ ChangeObserved /\ ArmedBefore /\ sinceArm >= 31248 =>
          published' = Append(published, IF previous_pir_value' THEN "1" ELSE "0") ]_vars

----------------------------------------------------------------------------
(* Properties of the text parsing *)

\* the number of leading bytes two texts have in common
RECURSIVE CommonPrefix(_, _)
CommonPrefix(a, b) ==
    IF a # << >> /\ b # << >> /\ Head(a) = Head(b)
    THEN 1 + CommonPrefix(Tail(a), Tail(b))
    ELSE 0

\* C14: consume leaves the topic cursor at the length of the longest common prefix
\* of topic and expectation, also when the match fails (update then returns with
\* the cursor where consume left it), and never beyond the end of the topic.
C14_CursorAtCommonPrefix ==
    pc = "done" =>
        /\ topic_ptr <= Len(frame.topic)
        /\ ~accepted => topic_ptr = CommonPrefix(frame.topic, MQTT_SWITCH_PREFIX)

\* the number of leading ASCII digits of text
RECURSIVE LeadingDigits(_)
LeadingDigits(text) ==
    IF Len(text) > 0 /\ IsDigit(text[1]) THEN 1 + LeadingDigits(Tail(text)) ELSE 0

\* the part of the text of the last parse_uint16 call from its cursor on
ParseInput == SubSeq(frame.topic, parsed.from + 1, Len(frame.topic))

\* C16: parse_uint16 consumes exactly the leading ASCII digits: the cursor ends
\* at the first byte that is no digit or at the end of the input, the result is
\* the decimal value of those digits modulo 2^16, and an input with no leading
\* digit (the empty one included) gives 0 and leaves the cursor where it was.
C16_LeadingDigitsOnly ==
    pc = "done" =>
        /\ topic_ptr = parsed.input
        /\ parsed.input = parsed.from + LeadingDigits(ParseInput)
        /\ parsed.result = NumberWritten(ParseInput, 0) % 65536
        /\ ~Numeric(ParseInput) => parsed.result = 0 /\ parsed.input = parsed.from

\* "042abc" gave 42 with the cursor at "a"
C16_Witness ==
    /\ pc = "done"
    /\ frame.topic = << 48, 52, 50, 97, 98, 99 >>
    /\ parsed = [from |-> 0, result |-> 42, input |-> 3]
    /\ topic_ptr = 3

====
